---- MODULE Spec2Model ----
(***************************************************************************)
(* torchgeometry/augmentation/affine.py: 2D affine transforms as 3x3       *)
(* homogeneous matrices, the matrix wrapper modules (TranslationMatrix,    *)
(* RotationMatrix, RandomRotationMatrix, RandomTranslationMatrix) and the  *)
(* entry points rotate, translate and affine.                              *)
(*                                                                         *)
(* A tensor is a record [shape |-> <<d1, ..., dr>>, vals |-> row-major     *)
(* values].  Python's None and a non-tensor argument are records of their  *)
(* own.  Values are integers: angles are multiples of 90 degrees (so that  *)
(* cos and sin are exact), translations and centers are integers, and a    *)
(* uniform draw from [lo, hi] is any integer grid point of [lo, hi].       *)
(* Image tensors carry their shape only: the pixels are touched by the     *)
(* external warp primitive alone.                                          *)
(***************************************************************************)
EXTENDS Integers, Sequences, FiniteSets

VARIABLES obj, conf, last, fn

vars == <<obj, conf, last, fn>>

(* ------------------------------- bounds -------------------------------- *)

\* largest batch size of any tensor drawn as an input
MaxBatch == 2

\* the translation components and range ends drawn as inputs
TVals == {-1, 0, 1}

\* the angles (degrees) drawn as inputs: multiples of 90 have exact cos/sin
AngleGrid == {-90, 0, 90}

\* the centers (cx, cy) drawn as inputs
CenterVals == {<<0, 0>>, <<1, 2>>}

(* ------------------------------- values -------------------------------- *)

None == [none |-> TRUE]

NotTensor == [nottensor |-> TRUE]

\* torch.is_tensor(v)
is_tensor(v) == "shape" \in DOMAIN v

Rank(t) == Len(t.shape)

\* a rank-1 tensor from a sequence of numbers
Vec(s) == [shape |-> <<Len(s)>>, vals |-> s]

\* a rank-2 tensor (n, m) from a sequence of n rows of length m
Mat(rows) ==
    [shape |-> <<Len(rows), Len(rows[1])>>,
     vals |-> [k \in 1..(Len(rows) * Len(rows[1])) |->
                 rows[((k - 1) \div Len(rows[1])) + 1][((k - 1) % Len(rows[1])) + 1]]]

\* a rank-3 tensor (B, n, m) whose element (b, i, j) is f(b, i, j)
Mk3(B, n, m, f(_, _, _)) ==
    [shape |-> <<B, n, m>>,
     vals |-> [k \in 1..(B * n * m) |->
                 f(((k - 1) \div (n * m)) + 1,
                   (((k - 1) \div m) % n) + 1,
                   ((k - 1) % m) + 1)]]

At2(t, i, j) == t.vals[(i - 1) * t.shape[2] + j]

At3(t, b, i, j) == t.vals[((b - 1) * t.shape[2] + (i - 1)) * t.shape[3] + j]

\* the outcome of a call: a returned value, or the kind of the exception raised
Ok(v) == [outcome |-> "ok", val |-> v]

Err(kind) == [outcome |-> kind, val |-> None]

\* t.uniform_(lo, hi) on a tensor of n elements: every element is drawn
\* from [lo, hi], here from the points of grid that lie in it
uniform_(shape, n, lo, hi, grid) ==
    {[shape |-> shape, vals |-> v] : v \in [1..n -> {a \in grid : lo <= a /\ a <= hi}]}

(* --------------------------- matrix builders --------------------------- *)

\* torch.eye(3)[None]
identity_matrix == Mk3(1, 3, 3, LAMBDA b, i, j : IF i = j THEN 1 ELSE 0)

\* t.repeat(r, 1, 1) of a rank-3 tensor
repeat(t, r) ==
    Mk3(t.shape[1] * r, t.shape[2], t.shape[3],
        LAMBDA b, i, j : At3(t, ((b - 1) % t.shape[1]) + 1, i, j))

\* torch.chunk(translation, 2, dim=-1)[c], broadcast against the (B, 1)
\* slice of the matrix: translation is (B, 2), or the 1-D pair (2,)
chunk(translation, c, b) ==
    IF Rank(translation) = 2 THEN At2(translation, b, c) ELSE translation.vals[c]

\* translation_matrix with dx and dy exchanged
translation_matrix_swapped(translation) ==
    LET matrix == repeat(identity_matrix, translation.shape[1])
    IN  Mk3(matrix.shape[1], 3, 3,
            LAMBDA b, i, j :
                IF i = 1 /\ j = 3 THEN At3(matrix, b, i, j) + chunk(translation, 2, b)
                ELSE IF i = 2 /\ j = 3 THEN At3(matrix, b, i, j) + chunk(translation, 1, b)
                ELSE At3(matrix, b, i, j))

translation_matrix(translation) ==
    LET matrix == repeat(identity_matrix, translation.shape[1])
    IN  Mk3(matrix.shape[1], 3, 3,
            LAMBDA b, i, j :
                IF i = 1 /\ j = 3 THEN At3(matrix, b, i, j) + chunk(translation, 1, b)
                ELSE IF i = 2 /\ j = 3 THEN At3(matrix, b, i, j) + chunk(translation, 2, b)
                ELSE At3(matrix, b, i, j))

\* F.pad(matrix, (0, 0, 0, 1)) adds a zero row; then [..., -1, -1] += 1
convert_matrix2d_to_homogeneous(matrix) ==
    Mk3(matrix.shape[1], matrix.shape[2] + 1, matrix.shape[3],
        LAMBDA b, i, j :
            IF i <= matrix.shape[2] THEN At3(matrix, b, i, j)
            ELSE IF j = matrix.shape[3] THEN 1 ELSE 0)

Cos(a) == CASE a % 360 = 0 -> 1 [] a % 360 = 90 -> 0 [] a % 360 = 180 -> -1 [] OTHER -> 0

Sin(a) == CASE a % 360 = 0 -> 0 [] a % 360 = 90 -> 1 [] a % 360 = 180 -> 0 [] OTHER -> -1

\* torchgeometry.core.get_rotation_matrix2d(center, angle, scale): the 2x3
\* rotation about center; a shape error unless center is (B, 2) and angle
\* and scale are (B,) for one B
get_rotation_matrix2d(center, angle, scale) ==
    IF ~(Rank(center) = 2 /\ center.shape[2] = 2 /\ Rank(angle) = 1 /\ Rank(scale) = 1
         /\ center.shape[1] = angle.shape[1] /\ angle.shape[1] = scale.shape[1])
    THEN Err("ValueError")
    ELSE Ok(Mk3(angle.shape[1], 2, 3,
                LAMBDA b, i, j :
                    LET alpha == scale.vals[b] * Cos(angle.vals[b])
                        beta == scale.vals[b] * Sin(angle.vals[b])
                        x == At2(center, b, 1)
                        y == At2(center, b, 2)
                    IN  CASE i = 1 /\ j = 1 -> alpha
                          [] i = 1 /\ j = 2 -> beta
                          [] i = 1 /\ j = 3 -> (1 - alpha) * x - beta * y
                          [] i = 2 /\ j = 1 -> 0 - beta
                          [] i = 2 /\ j = 2 -> alpha
                          [] OTHER -> beta * x + (1 - alpha) * y))

ones_like(t) == [shape |-> t.shape, vals |-> [k \in 1..Len(t.vals) |-> 1]]

rotation_matrix(angle, center) ==
    LET scale == ones_like(angle)
        m == get_rotation_matrix2d(center, angle, scale)
    IN  IF m.outcome = "ok" THEN Ok(convert_matrix2d_to_homogeneous(m.val)) ELSE m

\* matrix[..., :2, :3]
Top2x3(matrix) == Mk3(matrix.shape[1], 2, 3, LAMBDA b, i, j : At3(matrix, b, i, j))

(* ----------------------------- torch.matmul ---------------------------- *)

Batch(t) == IF Rank(t) = 3 THEN t.shape[1] ELSE 1

Rows(t) == t.shape[Rank(t) - 1]

Cols(t) == t.shape[Rank(t)]

\* element (b, i, j) of a rank-2 or rank-3 tensor, a batch of 1 broadcast
El(t, b, i, j) == t.vals[(((IF Batch(t) = 1 THEN 1 ELSE b) - 1) * Rows(t) + (i - 1)) * Cols(t) + j]

RECURSIVE Dot(_, _, _, _, _, _)
Dot(a, c, b, i, j, k) ==
    IF k = 0 THEN 0 ELSE El(a, b, i, k) * El(c, b, k, j) + Dot(a, c, b, i, j, k - 1)

\* torch.matmul(a, c) of tensors of rank 2 or 3
matmul(a, c) ==
    IF Cols(a) # Rows(c) \/ (Batch(a) # Batch(c) /\ Batch(a) # 1 /\ Batch(c) # 1)
    THEN Err("RuntimeError")
    ELSE LET B == IF Batch(a) >= Batch(c) THEN Batch(a) ELSE Batch(c)
             n == Rows(a)
             p == Cols(c)
             vals == [k \in 1..(B * n * p) |->
                        Dot(a, c, ((k - 1) \div (n * p)) + 1, (((k - 1) \div p) % n) + 1,
                            ((k - 1) % p) + 1, Cols(a))]
         IN  Ok([shape |-> IF Rank(a) = 2 /\ Rank(c) = 2 THEN <<n, p>> ELSE <<B, n, p>>,
                 vals |-> vals])

(* ------------------------------ wrappers ------------------------------- *)

\* a wrapper instance: the attributes of the four nn.Module classes, None
\* where the class does not set one
NoObj ==
    [kind |-> "none", translation |-> None, angle |-> None, center |-> None,
     degrees |-> None, matrix |-> None]

\* torch.cat([-t, t]) of a rank-1 tensor
cat_neg(t) ==
    [shape |-> <<2 * Len(t.vals)>>,
     vals |-> [k \in 1..(2 * Len(t.vals)) |->
                 IF k <= Len(t.vals) THEN 0 - t.vals[k] ELSE t.vals[k - Len(t.vals)]]]

TranslationMatrix_init(translation) ==
    IF translation = None THEN Err("AssertionError")
    ELSE Ok([NoObj EXCEPT !.kind = "TranslationMatrix",
                          !.translation = translation,
                          !.matrix = translation_matrix(translation)])

TranslationMatrix_affine(o) ==
    IF o.matrix = None THEN Err("AssertionError") ELSE Ok(Top2x3(o.matrix))

TranslationMatrix_forward(o, input) ==
    IF o.matrix = None THEN {[obj |-> o, outcome |-> "AssertionError", result |-> None]}
    ELSE LET r == matmul(o.matrix, input)
         IN  {[obj |-> o, outcome |-> r.outcome, result |-> r.val]}

RotationMatrix_init(angle, center) ==
    IF angle = None \/ center = None THEN Err("AssertionError")
    ELSE LET m == rotation_matrix(angle, center)
         IN  IF m.outcome # "ok" THEN m
             ELSE Ok([NoObj EXCEPT !.kind = "RotationMatrix",
                                   !.angle = angle,
                                   !.center = center,
                                   !.matrix = m.val])

RotationMatrix_affine(o) ==
    IF o.matrix = None THEN Err("AssertionError") ELSE Ok(Top2x3(o.matrix))

RotationMatrix_forward(o, input) ==
    IF o.matrix = None THEN {[obj |-> o, outcome |-> "AssertionError", result |-> None]}
    ELSE LET r == matmul(o.matrix, input)
         IN  {[obj |-> o, outcome |-> r.outcome, result |-> r.val]}

\* bool(degrees < 0) of a tensor with more than one element is a RuntimeError
RandomRotationMatrix_init(degrees, center) ==
    IF Rank(degrees) = 1
    THEN IF Len(degrees.vals) # 1 THEN Err("RuntimeError")
         ELSE IF degrees.vals[1] < 0 THEN Err("ValueError")
         ELSE Ok([NoObj EXCEPT !.kind = "RandomRotationMatrix",
                               !.degrees = cat_neg(degrees),
                               !.center = center])
    ELSE IF Rank(degrees) # 2 THEN Err("ValueError")
         ELSE Ok([NoObj EXCEPT !.kind = "RandomRotationMatrix",
                               !.degrees = degrees,
                               !.center = center])

\* degrees.tolist() indexed at [0] and [1]: numbers for a rank-1 tensor,
\* lists (which uniform_ rejects) for a rank-2 tensor.  The drawn tensor
\* is torch.tensor([float(num_samples)]): one element, whatever num_samples
RandomRotationMatrix_generate_params(o, num_samples) ==
    IF o.degrees.shape[1] < 2 THEN {Err("IndexError")}
    ELSE IF Rank(o.degrees) # 1 THEN {Err("TypeError")}
    ELSE {Ok(angle) : angle \in uniform_(<<1>>, 1, o.degrees.vals[1], o.degrees.vals[2],
                                         AngleGrid)}

\* self.angle is assigned before rotation_matrix is called
RandomRotationMatrix_generate_matrix(o, num_samples) ==
    IF o.center = None THEN {[obj |-> o, outcome |-> "AssertionError", val |-> None]}
    ELSE {IF p.outcome # "ok" THEN [obj |-> o, outcome |-> p.outcome, val |-> None]
          ELSE LET o1 == [o EXCEPT !.angle = p.val]
                   m == rotation_matrix(o1.angle, o1.center)
               IN  [obj |-> o1, outcome |-> m.outcome, val |-> m.val]
          : p \in RandomRotationMatrix_generate_params(o, num_samples)}

RandomRotationMatrix_affine(o) ==
    IF o.matrix = None THEN Err("AssertionError") ELSE Ok(Top2x3(o.matrix))

\* self.matrix is assigned before torch.matmul is called
RandomRotationMatrix_forward(o, input) ==
    IF Rank(input) # 3 \/ o.center = None
    THEN {[obj |-> o, outcome |-> "AssertionError", result |-> None]}
    ELSE {IF g.outcome # "ok" THEN [obj |-> g.obj, outcome |-> g.outcome, result |-> None]
          ELSE LET o2 == [g.obj EXCEPT !.matrix = g.val]
                   r == matmul(input, o2.matrix)
               IN  [obj |-> o2, outcome |-> r.outcome, result |-> r.val]
          : g \in RandomRotationMatrix_generate_matrix(o, input.shape[1])}

RandomTranslationMatrix_init(translation) ==
    IF Rank(translation) # 1 THEN Err("ValueError")
    ELSE IF translation.shape[1] = 1
         THEN Ok([NoObj EXCEPT !.kind = "RandomTranslationMatrix",
                               !.translation = cat_neg(translation)])
    ELSE IF translation.shape[1] = 2
         THEN Ok([NoObj EXCEPT !.kind = "RandomTranslationMatrix",
                               !.translation = translation])
    ELSE Err("ValueError")

\* self.translation.tolist() indexed at [0] and [1]: numbers while
\* self.translation is the rank-1 range, lists once it is a (B, 2) sample
RandomTranslationMatrix_generate_params(o, num_samples) ==
    IF o.translation.shape[1] < 2 THEN {Err("IndexError")}
    ELSE IF Rank(o.translation) # 1 THEN {Err("TypeError")}
    ELSE {Ok(translation) :
            translation \in uniform_(<<num_samples, 2>>, num_samples * 2,
                                     o.translation.vals[1], o.translation.vals[2], TVals)}

\* self.translation, which held the range, is assigned the sample
RandomTranslationMatrix_generate_matrix(o, num_samples) ==
    {IF p.outcome # "ok" THEN [obj |-> o, outcome |-> p.outcome, val |-> None]
     ELSE LET o1 == [o EXCEPT !.translation = p.val]
          IN  [obj |-> o1, outcome |-> "ok", val |-> translation_matrix(o1.translation)]
     : p \in RandomTranslationMatrix_generate_params(o, num_samples)}

RandomTranslationMatrix_affine(o) ==
    IF o.matrix = None THEN Err("AssertionError") ELSE Ok(Top2x3(o.matrix))

\* RandomTranslationMatrix.forward clearing self.matrix on entry
RandomTranslationMatrix_forward_reset(o, input) ==
    LET o0 == [o EXCEPT !.matrix = None]
    IN  IF Rank(input) # 3
        THEN {[obj |-> o0, outcome |-> "AssertionError", result |-> None]}
        ELSE {IF g.outcome # "ok"
              THEN [obj |-> g.obj, outcome |-> g.outcome, result |-> None]
              ELSE LET o2 == [g.obj EXCEPT !.matrix = g.val]
                       r == matmul(input, o2.matrix)
                   IN  [obj |-> o2, outcome |-> r.outcome, result |-> r.val]
              : g \in RandomTranslationMatrix_generate_matrix(o0, input.shape[1])}

RandomTranslationMatrix_forward(o, input) ==
    IF Rank(input) # 3
    THEN {[obj |-> o, outcome |-> "AssertionError", result |-> None]}
    ELSE {IF g.outcome # "ok" THEN [obj |-> g.obj, outcome |-> g.outcome, result |-> None]
          ELSE LET o2 == [g.obj EXCEPT !.matrix = g.val]
                   r == matmul(input, o2.matrix)
               IN  [obj |-> o2, outcome |-> r.outcome, result |-> r.val]
          : g \in RandomTranslationMatrix_generate_matrix(o, input.shape[1])}

(* ---------------------- rotate, translate, affine ---------------------- *)

Image(shape) == [shape |-> shape, vals |-> <<>>]

\* torch.unsqueeze(t, dim=0)
unsqueeze(t) == [t EXCEPT !.shape = <<1>> \o t.shape]

\* torch.squeeze(t, dim=0): the dimension goes only if its size is 1
squeeze(t) == IF t.shape[1] = 1 THEN [t EXCEPT !.shape = Tail(t.shape)] ELSE t

\* tensor.shape[-2:]
spatial(t) == <<t.shape[Rank(t) - 1], t.shape[Rank(t)]>>

\* torchgeometry.core.warp_affine(src, M, dsize): the images of src
\* resampled to dsize, same batch and channel count
warp_affine(src, M, dsize) == Image(<<src.shape[1], src.shape[2], dsize[1], dsize[2]>>)

\* height and width are odd in every image drawn, so the halves are exact
compute_rotation_center(tensor) ==
    LET height == spatial(tensor)[1]
        width == spatial(tensor)[2]
    IN  Vec(<<(width - 1) \div 2, (height - 1) \div 2>>)

\* center.expand(B, -1) of a (2,) or (Bc, 2) tensor
expand(center, B) ==
    IF Rank(center) = 1
    THEN Ok([shape |-> <<B, center.shape[1]>>,
             vals |-> [k \in 1..(B * center.shape[1]) |->
                         center.vals[((k - 1) % center.shape[1]) + 1]]])
    ELSE IF center.shape[1] = B THEN Ok(center)
    ELSE IF center.shape[1] = 1
    THEN Ok([shape |-> <<B, center.shape[2]>>,
             vals |-> [k \in 1..(B * center.shape[2]) |->
                         center.vals[((k - 1) % center.shape[2]) + 1]]])
    ELSE Err("RuntimeError")

\* the result of an entry point: its outcome, the tensor returned and the
\* call made to warp_affine (None when it was not invoked)
Raise(kind) == [outcome |-> kind, val |-> None, warp |-> None]

\* affine returning the warped batch without restoring the rank
affine_nosqueeze(tensor, matrix) ==
    LET is_unbatched == Rank(tensor) = 3
        t1 == IF is_unbatched THEN unsqueeze(tensor) ELSE tensor
        warped == warp_affine(t1, matrix, spatial(t1))
    IN  [outcome |-> "ok",
         val |-> warped,
         warp |-> [src |-> t1, M |-> matrix, dsize |-> spatial(t1)]]

affine(tensor, matrix) ==
    LET is_unbatched == Rank(tensor) = 3
        t1 == IF is_unbatched THEN unsqueeze(tensor) ELSE tensor
        warped == warp_affine(t1, matrix, spatial(t1))
    IN  [outcome |-> "ok",
         val |-> IF is_unbatched THEN squeeze(warped) ELSE warped,
         warp |-> [src |-> t1, M |-> matrix, dsize |-> spatial(t1)]]

\* the third test reads is_tensor(angle), not is_tensor(center); a center
\* that is no tensor fails at center.expand with an AttributeError
rotate(tensor, angle, center) ==
    IF ~is_tensor(tensor) THEN Raise("TypeError")
    ELSE IF ~is_tensor(angle) THEN Raise("TypeError")
    ELSE IF center # None /\ ~is_tensor(angle) THEN Raise("TypeError")
    ELSE IF Rank(tensor) \notin {3, 4} THEN Raise("ValueError")
    ELSE IF \/ Rank(tensor) = 3 /\ ~(Rank(angle) = 1)
            \/ Rank(tensor) = 4 /\ tensor.shape[1] # angle.shape[1]
         THEN Raise("ValueError")
    ELSE LET c0 == IF center = None THEN compute_rotation_center(tensor) ELSE center
         IN  IF ~is_tensor(c0) THEN Raise("AttributeError")
             ELSE LET c1 == expand(c0, angle.shape[1])
                  IN  IF c1.outcome # "ok" THEN Raise(c1.outcome)
                      ELSE LET rm == RotationMatrix_init(angle, c1.val)
                           IN  IF rm.outcome # "ok" THEN Raise(rm.outcome)
                               ELSE affine(tensor, RotationMatrix_affine(rm.val).val)

translate(tensor, translation) ==
    IF ~is_tensor(tensor) THEN Raise("TypeError")
    ELSE IF ~is_tensor(translation) THEN Raise("TypeError")
    ELSE IF Rank(tensor) \notin {3, 4} THEN Raise("ValueError")
    ELSE LET tm == TranslationMatrix_init(translation)
         IN  affine(tensor, TranslationMatrix_affine(tm.val).val)

(* ------------------------------- inputs -------------------------------- *)

\* a (B, n, m) tensor of B copies of the (n, m) tensor e
Stack(e, B) == Mk3(B, e.shape[1], e.shape[2], LAMBDA b, i, j : At2(e, i, j))

\* a (B, k) tensor from a sequence of B rows
Rows2(rows) == Mat(rows)

BatchesOf(S) == UNION {[1..B -> S] : B \in 1..MaxBatch}

\* translation arguments: (B, 2) tensors
TranslationArgs == {Rows2(r) : r \in BatchesOf(TVals \X TVals)}

\* angle arguments: (B,) tensors
AngleArgs == {Vec(a) : a \in BatchesOf(AngleGrid)}

\* center arguments: (B, 2) tensors
CenterArgs == {Rows2(r) : r \in BatchesOf(CenterVals)}

\* degrees arguments of RandomRotationMatrix: a 0-d scalar, (1,) bounds,
\* (2,) and (3,) sequences, and (1, 2) and (2, 1) matrices
DegreesArgs ==
    {[shape |-> <<>>, vals |-> <<90>>], Vec(<<0>>), Vec(<<90>>), Vec(<<-90>>),
     Vec(<<-90, 90>>), Vec(<<0, 90>>), Vec(<<-90, 0, 90>>),
     Mat(<<<<-90, 90>>>>), Mat(<<<<-90>>, <<90>>>>)}

\* translation arguments of RandomTranslationMatrix: a 0-d scalar, (1,)
\* bounds d >= 0, (2,) ranges lo <= hi, a (3,) sequence and a (1, 2) matrix
RangeArgs ==
    {[shape |-> <<>>, vals |-> <<1>>], Vec(<<-1, 0, 1>>), Mat(<<<<-1, 1>>>>)}
    \cup {Vec(<<d>>) : d \in {t \in TVals : t >= 0}}
    \cup {Vec(<<p[1], p[2]>>) : p \in {q \in TVals \X TVals : q[1] <= q[2]}}

\* the (n, m) operands given to apply: a homogeneous column point, a
\* homogeneous row point and a 3x3 matrix that commutes with no translation
Operands ==
    {Mat(<<<<2>>, <<1>>, <<1>>>>), Mat(<<<<2, 1, 1>>>>),
     Mat(<<<<1, 2, 0>>, <<0, 1, 0>>, <<3, 0, 1>>>>)}

\* inputs of apply: rank-3 stacks of an operand, and a rank-2 point
ApplyInputs ==
    {Stack(e, B) : e \in Operands, B \in 1..MaxBatch} \cup {Mat(<<<<2>>, <<1>>, <<1>>>>)}

(* --------------------------- wrapper actions --------------------------- *)

\* The model follows one wrapper instance from its construction on.  obj
\* is the instance (NoObj until a constructor has returned), conf is the
\* range the constructor of a random wrapper fixed, and last records the
\* last call: its operation, outcome, argument and returned value.
Call(op, kind, outcome, arg, result) ==
    [op |-> op, kind |-> kind, outcome |-> outcome, arg |-> arg, result |-> result]

\* the instance held after a constructor call: none when it raised
Made(r) == IF r.outcome = "ok" THEN r.val ELSE NoObj

NewTranslationMatrix ==
    /\ obj.kind = "none"
    /\ \E translation \in TranslationArgs \cup {None} :
         LET r == TranslationMatrix_init(translation)
         IN  /\ obj' = Made(r)
             /\ last' = Call("construct", "TranslationMatrix", r.outcome, translation, None)
    /\ UNCHANGED <<conf, fn>>

NewRotationMatrix ==
    /\ obj.kind = "none"
    /\ \E angle \in AngleArgs, center \in CenterArgs \cup {None} :
         LET r == RotationMatrix_init(angle, center)
         IN  /\ obj' = Made(r)
             /\ last' = Call("construct", "RotationMatrix", r.outcome, angle, None)
    /\ UNCHANGED <<conf, fn>>

NewRandomRotationMatrix ==
    /\ obj.kind = "none"
    /\ \E degrees \in DegreesArgs, center \in CenterArgs \cup {None} :
         LET r == RandomRotationMatrix_init(degrees, center)
         IN  /\ obj' = Made(r)
             /\ conf' = Made(r).degrees
             /\ last' = Call("construct", "RandomRotationMatrix", r.outcome, degrees, None)
    /\ UNCHANGED fn

NewRandomTranslationMatrix ==
    /\ obj.kind = "none"
    /\ \E translation \in RangeArgs :
         LET r == RandomTranslationMatrix_init(translation)
         IN  /\ obj' = Made(r)
             /\ conf' = Made(r).translation
             /\ last' = Call("construct", "RandomTranslationMatrix", r.outcome, translation,
                             None)
    /\ UNCHANGED fn

ApplyTranslationMatrix ==
    /\ obj.kind = "TranslationMatrix"
    /\ \E input \in ApplyInputs :
         \E r \in TranslationMatrix_forward(obj, input) :
             /\ obj' = r.obj
             /\ last' = Call("apply", obj.kind, r.outcome, input, r.result)
    /\ UNCHANGED <<conf, fn>>

ApplyRotationMatrix ==
    /\ obj.kind = "RotationMatrix"
    /\ \E input \in ApplyInputs :
         \E r \in RotationMatrix_forward(obj, input) :
             /\ obj' = r.obj
             /\ last' = Call("apply", obj.kind, r.outcome, input, r.result)
    /\ UNCHANGED <<conf, fn>>

ApplyRandomRotationMatrix ==
    /\ obj.kind = "RandomRotationMatrix"
    /\ \E input \in ApplyInputs :
         \E r \in RandomRotationMatrix_forward(obj, input) :
             /\ obj' = r.obj
             /\ last' = Call("apply", obj.kind, r.outcome, input, r.result)
    /\ UNCHANGED <<conf, fn>>

ApplyRandomTranslationMatrix ==
    /\ obj.kind = "RandomTranslationMatrix"
    /\ \E input \in ApplyInputs :
         \E r \in RandomTranslationMatrix_forward(obj, input) :
             /\ obj' = r.obj
             /\ last' = Call("apply", obj.kind, r.outcome, input, r.result)
    /\ UNCHANGED <<conf, fn>>

\* the affine() method of the held wrapper
Wrapper_affine(o) ==
    CASE o.kind = "TranslationMatrix" -> TranslationMatrix_affine(o)
      [] o.kind = "RotationMatrix" -> RotationMatrix_affine(o)
      [] o.kind = "RandomRotationMatrix" -> RandomRotationMatrix_affine(o)
      [] OTHER -> RandomTranslationMatrix_affine(o)

AffineOfWrapper ==
    /\ obj.kind # "none"
    /\ LET r == Wrapper_affine(obj)
       IN  last' = Call("affine", obj.kind, r.outcome, None, r.val)
    /\ UNCHANGED <<obj, conf, fn>>

NoCall == Call("none", "none", "ok", None, None)

NoFn ==
    [op |-> "none", tensor |-> None, arg |-> None, center |-> None,
     outcome |-> "ok", val |-> None, warp |-> None]

Init ==
    /\ obj = NoObj
    /\ conf = None
    /\ last = NoCall
    /\ fn = NoFn

Next ==
    \/ NewTranslationMatrix
    \/ NewRotationMatrix
    \/ NewRandomRotationMatrix
    \/ NewRandomTranslationMatrix
    \/ ApplyTranslationMatrix
    \/ ApplyRotationMatrix
    \/ ApplyRandomRotationMatrix
    \/ ApplyRandomTranslationMatrix
    \/ AffineOfWrapper

Spec == Init /\ [][Next]_vars

(* ------------------------- entry-point actions ------------------------- *)

\* image shapes: rank 2 (H, W), rank 3 (C, H, W), rank 4 (B, C, H, W)
ImageShapes ==
    {hw : hw \in {<<1, 3>>, <<3, 5>>}}
    \cup {<<2>> \o hw : hw \in {<<1, 3>>, <<3, 5>>}}
    \cup {<<B, 2>> \o hw : B \in 1..MaxBatch, hw \in {<<1, 3>>, <<3, 5>>}}

Images == {Image(s) : s \in ImageShapes}

\* angle arguments of rotate: (B,) tensors, a (1, 1) tensor, a non-tensor
RotateAngles ==
    {Vec(a) : a \in BatchesOf({0, 90})} \cup {Mat(<<<<90>>>>), NotTensor}

\* center arguments of rotate: omitted, a (2,) pair, (B, 2), a non-tensor
RotateCenters ==
    {None, NotTensor} \cup {Vec(c) : c \in CenterVals} \cup CenterArgs

\* translation arguments of translate: (B, 2) tensors, a non-tensor
TranslateArgs ==
    {Rows2(r) : r \in BatchesOf({<<0, 0>>, <<1, -1>>})} \cup {NotTensor}

\* The entry points are functions of their arguments: a behaviour of
\* SpecFn draws one call (fn.outcome = "pending") and evaluates it.
Pending(op, tensor, arg, center) ==
    [op |-> op, tensor |-> tensor, arg |-> arg, center |-> center,
     outcome |-> "pending", val |-> None, warp |-> None]

Done(r) == [fn EXCEPT !.outcome = r.outcome, !.val = r.val, !.warp = r.warp]

InitFn ==
    /\ obj = NoObj
    /\ conf = None
    /\ last = NoCall
    /\ \/ \E tensor \in Images \cup {NotTensor}, angle \in RotateAngles,
             center \in RotateCenters :
            fn = Pending("rotate", tensor, angle, center)
       \/ \E tensor \in Images \cup {NotTensor}, translation \in TranslateArgs :
            fn = Pending("translate", tensor, translation, None)
       \/ \E tensor \in {t \in Images : Rank(t) \in {3, 4}},
             translation \in TranslateArgs \ {NotTensor} :
            fn = Pending("affine", tensor, Top2x3(translation_matrix(translation)), None)

Rotate ==
    /\ fn.op = "rotate" /\ fn.outcome = "pending"
    /\ fn' = Done(rotate(fn.tensor, fn.arg, fn.center))
    /\ UNCHANGED <<obj, conf, last>>

Translate ==
    /\ fn.op = "translate" /\ fn.outcome = "pending"
    /\ fn' = Done(translate(fn.tensor, fn.arg))
    /\ UNCHANGED <<obj, conf, last>>

Affine ==
    /\ fn.op = "affine" /\ fn.outcome = "pending"
    /\ fn' = Done(affine(fn.tensor, fn.arg))
    /\ UNCHANGED <<obj, conf, last>>

NextFn == Rotate \/ Translate \/ Affine

SpecFn == InitFn /\ [][NextFn]_vars

(* ------------------------------- claims -------------------------------- *)

Random == {"RandomRotationMatrix", "RandomTranslationMatrix"}

Deterministic == {"TranslationMatrix", "RotationMatrix"}

\* the coordinates x, y of the homogeneous points of C7
PointRange == -1..1

\* the (3, 1) homogeneous column point (x, y, 1)
Point(x, y) == Mat(<<<<x>>, <<y>>, <<1>>>>)

\* C1: a RandomTranslationMatrix constructed with an explicit range
\* [lo, hi] (here an asymmetric one, which no single bound d produces):
\* every apply on a rank-3 input (B, k, 3) succeeds, every sampled dx and
\* dy lies in [lo, hi], and the configured range is still [lo, hi].
C1_RangeKept ==
    (/\ last.op = "apply"
     /\ last.kind = "RandomTranslationMatrix"
     /\ conf.vals[1] + conf.vals[2] # 0
     /\ conf.vals[1] < conf.vals[2]
     /\ Rank(last.arg) = 3
     /\ Cols(last.arg) = 3)
    => /\ last.outcome = "ok"
       /\ obj.matrix # None
       /\ \A b \in 1..obj.matrix.shape[1] :
            /\ conf.vals[1] <= At3(obj.matrix, b, 1, 3)
            /\ At3(obj.matrix, b, 1, 3) <= conf.vals[2]
            /\ conf.vals[1] <= At3(obj.matrix, b, 2, 3)
            /\ At3(obj.matrix, b, 2, 3) <= conf.vals[2]

\* C2: an apply of a RandomRotationMatrix on an input of batch size B that
\* returns has sampled B angles, each in the configured range, and the
\* stored angle vector and matrix have batch size B.
C2_OneAnglePerElement ==
    (/\ last.op = "apply"
     /\ last.kind = "RandomRotationMatrix"
     /\ last.outcome = "ok")
    => /\ obj.angle.shape = <<last.arg.shape[1]>>
       /\ obj.matrix.shape = <<last.arg.shape[1], 3, 3>>
       /\ \A k \in 1..Len(obj.angle.vals) :
            conf.vals[1] <= obj.angle.vals[k] /\ obj.angle.vals[k] <= conf.vals[2]

\* C3: the RandomRotationMatrix constructor on a single bound [d] succeeds
\* with range [-d, d] when d >= 0 and raises ValueError when d < 0; on a
\* pair [lo, hi] it succeeds with range [lo, hi]; on a sequence of another
\* length it raises ValueError; it raises nothing else, and a failed call
\* leaves no instance.
C3_ConstructorOutcomes ==
    (last.op = "construct" /\ last.kind = "RandomRotationMatrix")
    => /\ last.outcome \in {"ok", "ValueError"}
       /\ last.outcome # "ok" => obj = NoObj
       /\ (Rank(last.arg) = 1 /\ Len(last.arg.vals) = 1 /\ last.arg.vals[1] >= 0)
            => /\ last.outcome = "ok"
               /\ obj.degrees = Vec(<<0 - last.arg.vals[1], last.arg.vals[1]>>)
       /\ (Rank(last.arg) = 1 /\ Len(last.arg.vals) = 1 /\ last.arg.vals[1] < 0)
            => last.outcome = "ValueError"
       /\ (Rank(last.arg) = 1 /\ Len(last.arg.vals) = 2)
            => last.outcome = "ok" /\ obj.degrees = last.arg
       /\ (Rank(last.arg) = 1 /\ Len(last.arg.vals) > 2)
            => last.outcome = "ValueError"

\* C4: affine() raises the precondition (assertion) error exactly when
\* the wrapper's matrix is absent and otherwise returns the top-left 2x3
\* block of every matrix of the stored batch; a deterministic wrapper has
\* its matrix from construction on, a random wrapper has none when
\* constructed and has one after every apply that returned; and a matrix
\* that is present is present after every later call.
C4_State ==
    /\ obj.kind \in Deterministic => obj.matrix # None
    /\ (last.op = "construct" /\ last.outcome = "ok" /\ last.kind \in Random)
         => obj.matrix = None
    /\ (last.op = "apply" /\ last.outcome = "ok") => obj.matrix # None
    /\ last.op = "affine"
         => /\ last.outcome \in {"ok", "AssertionError"}
            /\ last.outcome = "AssertionError" <=> obj.matrix = None
            /\ last.outcome = "ok"
                 => /\ last.result.shape = <<obj.matrix.shape[1], 2, 3>>
                    /\ \A b \in 1..obj.matrix.shape[1], i \in 1..2, j \in 1..3 :
                         At3(last.result, b, i, j) = At3(obj.matrix, b, i, j)

C4_Step == obj.matrix # None => obj'.matrix # None

C5_BatchMismatchRejected ==
    (/\ fn.op = "rotate"
     /\ fn.outcome # "pending"
     /\ is_tensor(fn.tensor) /\ is_tensor(fn.arg)
     /\ (fn.center = None \/ is_tensor(fn.center))
     /\ \/ Rank(fn.tensor) \notin {3, 4}
        \/ Rank(fn.tensor) = 4 /\ fn.arg.shape[1] # fn.tensor.shape[1]
        \/ Rank(fn.tensor) = 3 /\ fn.arg.shape[1] # 1)
    => fn.outcome = "ValueError" /\ fn.warp = None

\* C6: a call of rotate, translate or affine on a rank-3 or rank-4 tensor
\* that returns gives a tensor of the input's shape; the warp was called
\* with the input's (H, W) as output size, on the input with a batch
\* dimension of 1 put in front when it has rank 3, on the input itself
\* when it has rank 4.
C6_ShapePreserved ==
    (fn.outcome = "ok" /\ fn.op \in {"rotate", "translate", "affine"})
    => /\ Rank(fn.tensor) \in {3, 4}
       /\ fn.val.shape = fn.tensor.shape
       /\ fn.warp # None
       /\ fn.warp.dsize = <<fn.tensor.shape[Rank(fn.tensor) - 1],
                            fn.tensor.shape[Rank(fn.tensor)]>>
       /\ fn.warp.src.shape = IF Rank(fn.tensor) = 3 THEN <<1>> \o fn.tensor.shape
                              ELSE fn.tensor.shape

\* rotate returned on an unbatched image whose height and width differ
C6_Witness ==
    /\ fn.op = "rotate"
    /\ fn.outcome = "ok"
    /\ Rank(fn.tensor) = 3
    /\ fn.tensor.shape[2] # fn.tensor.shape[3]
    /\ fn.val.shape = fn.tensor.shape

\* C7: the matrix translation_matrix builds from a batch of B translations
\* (dx_i, dy_i) is B 3x3 matrices, the i-th the identity with dx_i at
\* (0, 2) and dy_i at (1, 2), and it maps every homogeneous point
\* (x, y, 1) to (x + dx_i, y + dy_i, 1).
C7_TranslationMatrix ==
    obj.kind = "TranslationMatrix"
    => LET t == obj.translation
           B == t.shape[1]
       IN  /\ obj.matrix.shape = <<B, 3, 3>>
           /\ \A b \in 1..B, i \in 1..3, j \in 1..3 :
                At3(obj.matrix, b, i, j) =
                    (IF i = 1 /\ j = 3 THEN At2(t, b, 1)
                     ELSE IF i = 2 /\ j = 3 THEN At2(t, b, 2)
                     ELSE IF i = j THEN 1 ELSE 0)
           /\ \A x \in PointRange, y \in PointRange :
                LET r == matmul(obj.matrix, Point(x, y))
                IN  /\ r.outcome = "ok"
                    /\ r.val.shape = <<B, 3, 1>>
                    /\ \A b \in 1..B :
                         /\ At3(r.val, b, 1, 1) = x + At2(t, b, 1)
                         /\ At3(r.val, b, 2, 1) = y + At2(t, b, 2)
                         /\ At3(r.val, b, 3, 1) = 1

\* a wrapper of two different translations, neither zero, was applied to
\* the point (2, 1, 1) and moved it by each
C7_Witness ==
    /\ obj.kind = "TranslationMatrix"
    /\ obj.translation.shape[1] = 2
    /\ At2(obj.translation, 1, 1) # At2(obj.translation, 2, 1)
    /\ At2(obj.translation, 1, 2) # At2(obj.translation, 2, 2)
    /\ At2(obj.translation, 1, 1) # At2(obj.translation, 1, 2)
    /\ last.op = "apply"
    /\ last.outcome = "ok"
    /\ last.arg = Point(2, 1)
    /\ At3(last.result, 1, 1, 1) = 2 + At2(obj.translation, 1, 1)
    /\ At3(last.result, 2, 2, 1) = 1 + At2(obj.translation, 2, 2)

\* C8: rotate raises TypeError, building no matrix and invoking no warp,
\* when tensor, angle or a supplied center is no tensor; translate does
\* when tensor or translation is no tensor.  (Stated for tensors of rank
\* 3 or 4, so that no rank error stands in the way.)
C8_TypeChecked ==
    (/\ fn.outcome # "pending"
     /\ is_tensor(fn.tensor) => Rank(fn.tensor) \in {3, 4}
     /\ \/ /\ fn.op = "rotate"
           /\ \/ ~is_tensor(fn.tensor)
              \/ ~is_tensor(fn.arg)
              \/ fn.center # None /\ ~is_tensor(fn.center)
        \/ /\ fn.op = "translate"
           /\ ~is_tensor(fn.tensor) \/ ~is_tensor(fn.arg))
    => fn.outcome = "TypeError" /\ fn.warp = None

\* C9: an apply of any wrapper that returns gives the batched product of
\* the stored matrix on the left and the input on the right.
C9_MatrixOnTheLeft ==
    (last.op = "apply" /\ last.outcome = "ok")
    => LET r == matmul(obj.matrix, last.arg)
       IN  r.outcome = "ok" /\ last.result = r.val

\* C10: an apply of a random wrapper that raises because the input is not
\* of rank 3, because the center is missing, or because the rotation
\* matrix builder rejects the batch sizes of angle and center, leaves the
\* wrapper's stored state as it was.
C10_Step ==
    (/\ last'.op = "apply"
     /\ last'.kind \in Random
     /\ last'.outcome \in {"AssertionError", "ValueError"})
    => obj' = obj

\* C10: every step is a C10_Step: a failed apply of a random wrapper changes nothing
C10_NoPartialApply == [][C10_Step]_vars

====
